---- MODULE Spec2Model ----
(***************************************************************************)
(* Query-string parser and filter compiler of the record API               *)
(* (trailbase-core/src/listing.rs).                                        *)
(*                                                                         *)
(* Strings are TLA+ strings, read character by character with SubSeq.     *)
(* The module text is ASCII; three symbols of the model's alphabet stand   *)
(* for code points outside ASCII (see EAcute, Nbsp, Undertie), so that the *)
(* Unicode behaviour of char::is_alphanumeric, str::trim, the regex class  *)
(* \w and byte-indexed slicing is part of the model.                       *)
(*                                                                         *)
(* Option<T> is a sequence of length at most one: None == <<>>,            *)
(* Some(x) == <<x>>.                                                       *)
(***************************************************************************)
EXTENDS Integers, Sequences, FiniteSets, TLC

VARIABLES
  pairs,          \* form_urlencoded::parse(query): the decoded (key, value) pairs
  i,              \* parse_and_sanitize_query: index of the next pair of the for loop
  pst,            \* parse_and_sanitize_query: "run", "ok", "err", "panic", or "skip" (not called)
  perr,           \* the String of the returned Err
  result,         \* the QueryParseResult under construction / returned
  table_name,     \* build_filter_where_clause arguments
  columns,
  filter_params,
  bst,            \* build_filter_where_clause: "idle", "run", "ok", "err"
  todo,           \* keys of filter_params the for loop has not visited yet
  where_clauses,  \* locals of build_filter_where_clause
  params,
  out,            \* the values returned by the calls so far, in call order
  schema,         \* TableMetadata::new / ViewMetadata::new: the Table or View
  tables,         \* the list of all tables, for foreign-key resolution
  user_table_name,
  mst,            \* metadata construction: "new", "pk", "user", "done", or "skip"
  record_pk_column,
  user_id_columns,
  json_metadata

vars == <<pairs, i, pst, perr, result, table_name, columns, filter_params,
          bst, todo, where_clauses, params, out,
          schema, tables, user_table_name, mst, record_pk_column,
          user_id_columns, json_metadata>>

-----------------------------------------------------------------------------
(* Bounds of the model.                                                    *)

\* Longest query, in key/value pairs.
MaxPairs == 2

\* Most keys of a filter mapping handed to build_filter_where_clause directly.
MaxKeys == 2

-----------------------------------------------------------------------------
(* Characters.                                                             *)

None == <<>>
Some(x) == <<x>>

Char(s, n) == SubSeq(s, n, n)

\* U+00E9 LATIN SMALL LETTER E WITH ACUTE: alphabetic, two bytes in UTF-8.
EAcute == "@"
\* U+00A0 NO-BREAK SPACE: White_Space, two bytes in UTF-8.
Nbsp == "~"
\* U+203F UNDERTIE: connector punctuation (in \w, not alphanumeric), three bytes.
Undertie == "^"

AsciiLower == {"a", "b", "c", "d", "e", "f", "g", "h", "i", "j", "k", "l", "m",
               "n", "o", "p", "q", "r", "s", "t", "u", "v", "w", "x", "y", "z"}
AsciiUpper == {"A", "B", "C", "D", "E", "F", "G", "H", "I", "J", "K", "L", "M",
               "N", "O", "P", "Q", "R", "S", "T", "U", "V", "W", "X", "Y", "Z"}
AsciiDigit == {"0", "1", "2", "3", "4", "5", "6", "7", "8", "9"}

\* Bytes of the character's UTF-8 encoding.
Utf8Len(c) == IF c \in {EAcute, Nbsp} THEN 2 ELSE IF c = Undertie THEN 3 ELSE 1

\* char::is_alphanumeric (Unicode Alphabetic or Numeric).
is_alphanumeric(c) == c \in AsciiLower \cup AsciiUpper \cup AsciiDigit \cup {EAcute}

\* char::is_whitespace (Unicode White_Space), what str::trim removes.
is_whitespace(c) == c \in {" ", Nbsp}

\* The regex class \w (Unicode word character: Alphabetic, Mark, Decimal_Number,
\* Connector_Punctuation, Join_Control).
is_word(c) == is_alphanumeric(c) \/ c \in {"_", Undertie}

starts_with(s, c) == Len(s) >= 1 /\ Char(s, 1) = c

\* str::trim: the slice without leading and trailing White_Space.
trim(s) ==
  LET keep == {n \in 1..Len(s) : ~is_whitespace(Char(s, n))}
      lo == CHOOSE n \in keep : \A m \in keep : n <= m
      hi == CHOOSE n \in keep : \A m \in keep : m <= n
  IN IF keep = {} THEN "" ELSE SubSeq(s, lo, hi)

\* &v[1..]: the slice from byte offset 1. It panics unless offset 1 is a
\* character boundary of v ("slice" is None for the panic).
SliceFrom1(v) ==
  IF Len(v) >= 1 /\ Utf8Len(Char(v, 1)) = 1
  THEN Some(SubSeq(v, 2, Len(v)))
  ELSE None

\* str::split(","): the pieces between the commas, at least one piece.
RECURSIVE split(_)
split(s) ==
  LET commas == {n \in 1..Len(s) : Char(s, n) = ","}
      first == CHOOSE n \in commas : \A m \in commas : n <= m
  IN IF commas = {} THEN <<s>>
     ELSE <<SubSeq(s, 1, first - 1)>> \o split(SubSeq(s, first + 1, Len(s)))

-----------------------------------------------------------------------------
(* Numbers.                                                                *)

DigitValue(c) ==
  CASE c = "0" -> 0 [] c = "1" -> 1 [] c = "2" -> 2 [] c = "3" -> 3 [] c = "4" -> 4
    [] c = "5" -> 5 [] c = "6" -> 6 [] c = "7" -> 7 [] c = "8" -> 8 [] c = "9" -> 9

AllDigits(s) == Len(s) >= 1 /\ \A n \in 1..Len(s) : Char(s, n) \in AsciiDigit

RECURSIVE DecimalValue(_)
DecimalValue(s) ==
  IF Len(s) = 0 THEN 0
  ELSE 10 * DecimalValue(SubSeq(s, 1, Len(s) - 1)) + DigitValue(Char(s, Len(s)))

\* str::parse::<usize>(): digits with an optional leading "+". The queries of
\* the model carry numbers of a few digits, far from the overflow of usize.
parse_usize(s) ==
  LET body == IF starts_with(s, "+") THEN SubSeq(s, 2, Len(s)) ELSE s
  IN IF AllDigits(body) THEN Some(DecimalValue(body)) ELSE None

\* str::parse::<i64>(): digits with an optional leading "+" or "-".
parse_i64(s) ==
  LET signed == starts_with(s, "+") \/ starts_with(s, "-")
      body == IF signed THEN SubSeq(s, 2, Len(s)) ELSE s
  IN IF ~AllDigits(body) THEN None
     ELSE IF starts_with(s, "-") THEN Some(0 - DecimalValue(body))
     ELSE Some(DecimalValue(body))

-----------------------------------------------------------------------------
(* Cursor.                                                                 *)

\* The URL-safe base64 alphabet, in the order of its 6-bit values.
B64Alphabet == "ABCDEFGHIJKLMNOPQRSTUVWXYZabcdefghijklmnopqrstuvwxyz0123456789-_"

IsB64(c) == \E n \in 1..Len(B64Alphabet) : Char(B64Alphabet, n) = c

B64Value(c) == (CHOOSE n \in 1..Len(B64Alphabet) : Char(B64Alphabet, n) = c) - 1

\* The bytes of one group of 4, 3 ("xxx=") or 2 ("xx==") base64 characters;
\* None when the bits left over are not zero.
B64Group(g) ==
  LET v(n) == B64Value(Char(g, n))
  IN CASE Len(g) = 4 ->
            LET w == ((v(1) * 64 + v(2)) * 64 + v(3)) * 64 + v(4)
            IN Some(<<w \div 65536, (w \div 256) % 256, w % 256>>)
       [] Len(g) = 3 ->
            LET w == (v(1) * 64 + v(2)) * 64 + v(3)
            IN IF w % 4 = 0 THEN Some(<<w \div 1024, (w \div 4) % 256>>) ELSE None
       [] Len(g) = 2 ->
            LET w == v(1) * 64 + v(2)
            IN IF w % 16 = 0 THEN Some(<<w \div 16>>) ELSE None

RECURSIVE B64Decode(_)
\* Padded URL-safe base64: whole groups of four, "=" only at the end of the last.
B64Decode(s) ==
  IF Len(s) = 0 THEN Some(<<>>)
  ELSE IF Len(s) < 4 THEN None
  ELSE LET g4 == SubSeq(s, 1, 4)
           last == Len(s) = 4
           g == IF last /\ SubSeq(g4, 3, 4) = "==" THEN SubSeq(g4, 1, 2)
                ELSE IF last /\ Char(g4, 4) = "=" THEN SubSeq(g4, 1, 3)
                ELSE g4
           head == IF \A n \in 1..Len(g) : IsB64(Char(g, n)) THEN B64Group(g) ELSE None
           rest == IF head = None THEN None ELSE B64Decode(SubSeq(s, 5, Len(s)))
       IN IF head = None \/ rest = None THEN None ELSE Some(head[1] \o rest[1])

\* Bytes of the opaque identifier.
IdLen == 16

\* b64_to_id: the 16 bytes a base64 identifier decodes to, or None (its Err).
b64_to_id(value) ==
  LET bytes == B64Decode(value)
  IN IF bytes # None /\ Len(bytes[1]) = IdLen THEN bytes ELSE None

\* Mutant: the identifier decoding is left out.
Cursor_parse_integer_only(value) ==
  IF parse_i64(value) # None
  THEN Some([variant |-> "Integer", blob |-> <<>>, num |-> parse_i64(value)[1]])
  ELSE None
\* Cursor::parse.
Cursor_parse(value) ==
  IF b64_to_id(value) # None
  THEN Some([variant |-> "Blob", blob |-> b64_to_id(value)[1], num |-> 0])
  ELSE IF parse_i64(value) # None
  THEN Some([variant |-> "Integer", blob |-> <<>>, num |-> parse_i64(value)[1]])
  ELSE None

-----------------------------------------------------------------------------
(* Helpers of parse_and_sanitize_query.                                    *)

\* Mutant: the false-like tokens yield false.
parse_bool_false_is_false(s) ==
  CASE s \in {"TRUE", "true", "1"} -> Some(TRUE)
    [] s \in {"FALSE", "false", "0"} -> Some(FALSE)
    [] OTHER -> None
parse_bool(s) ==
  CASE s \in {"TRUE", "true", "1"} -> Some(TRUE)
    [] s \in {"FALSE", "false", "0"} -> Some(TRUE)
    [] OTHER -> None

\* Mutant: only quotes and brackets are refused (the characters the comment of
\* line 151 calls enough).
sanitize_column_name_quotes_only(name) ==
  \A n \in 1..Len(name) : Char(name, n) \notin {"'", "[", "]"}

sanitize_column_name(name) ==
  \A n \in 1..Len(name) :
    is_alphanumeric(Char(name, n)) \/ Char(name, n) \in {".", "-", "_"}

AllWord(s) == \A n \in 1..Len(s) : is_word(Char(s, n))

\* QUALIFIER_REGEX ^(?<key>\w*)(?:\[(?<qualifier>\w+)\])?$ and the captures
\* split_key_into_col_and_op reads from it: Some of (k, maybe_op), or None
\* when the key does not match.
split_key_into_col_and_op(key) ==
  LET opens == {n \in 1..Len(key) : Char(key, n) = "["}
      open == CHOOSE n \in opens : \A m \in opens : n <= m
  IN IF AllWord(key) THEN Some([k |-> key, maybe_op |-> None])
     ELSE IF /\ opens # {}
             /\ Char(key, Len(key)) = "]"
             /\ open + 1 <= Len(key) - 1
             /\ AllWord(SubSeq(key, 1, open - 1))
             /\ AllWord(SubSeq(key, open + 1, Len(key) - 1))
     THEN Some([k |-> SubSeq(key, 1, open - 1),
                maybe_op |-> Some(SubSeq(key, open + 1, Len(key) - 1))])
     ELSE None

\* Qualifier::from.
Qualifier_from(qualifier) ==
  CASE qualifier = Some("gte") -> Some("GreaterThanEqual")
    [] qualifier = Some("gt") -> Some("GreaterThan")
    [] qualifier = Some("lte") -> Some("LessThanEqual")
    [] qualifier = Some("lt") -> Some("LessThan")
    [] qualifier = Some("not") -> Some("Not")
    [] qualifier = Some("ne") -> Some("NotEqual")
    [] qualifier = Some("like") -> Some("Like")
    [] qualifier = Some("re") -> Some("Regexp")
    [] qualifier = None -> Some("Equal")
    [] OTHER -> None

\* Qualifier::to_sql.
to_sql(q) ==
  CASE q = "GreaterThanEqual" -> ">="
    [] q = "GreaterThan" -> ">"
    [] q = "LessThanEqual" -> "<="
    [] q = "LessThan" -> "<"
    [] q = "Not" -> "<>"
    [] q = "NotEqual" -> "<>"
    [] q = "Like" -> "LIKE"
    [] q = "Regexp" -> "REGEXP"
    [] q = "Equal" -> "="

\* Order.
Ascending == "Ascending"
Descending == "Descending"

\* Mutant: only the "-" prefix is recognised.
OrderEntry_minus_only(v) ==
  LET x == trim(v)
      col == IF starts_with(x, "-") THEN SliceFrom1(v) ELSE Some(x)
      ord == IF starts_with(x, "-") THEN Descending ELSE Ascending
  IN IF col = None THEN [kind |-> "panic", col |-> "", ord |-> ord]
     ELSE IF ~sanitize_column_name(col[1]) THEN [kind |-> "err", col |-> col[1], ord |-> ord]
     ELSE [kind |-> "ok", col |-> col[1], ord |-> ord]

\* The closure mapped over the entries of the "order" value (lines 196-208):
\* "panic" when the slice v[1..] panics, "err" with the rejected column name,
\* or "ok" with the (column, Order) pair.
OrderEntry(v) ==
  LET x == trim(v)
      prefixed == starts_with(x, "-") \/ starts_with(x, "+")
      col == IF prefixed THEN SliceFrom1(v) ELSE Some(x)
      ord == IF starts_with(x, "-") THEN Descending ELSE Ascending
  IN IF col = None THEN [kind |-> "panic", col |-> "", ord |-> ord]
     ELSE IF ~sanitize_column_name(col[1]) THEN [kind |-> "err", col |-> col[1], ord |-> ord]
     ELSE [kind |-> "ok", col |-> col[1], ord |-> ord]

\* The closure mapped over the entries of the "expand" value (lines 180-186).
ExpandEntry(s) ==
  IF ~sanitize_column_name(s) THEN [kind |-> "err", col |-> s]
  ELSE [kind |-> "ok", col |-> s]

\* Iterator::collect::<Result<Vec<_>, _>>() over the mapped entries: the map is
\* lazy, so the first entry that is not "ok" ends it and the later entries are
\* never evaluated.
RECURSIVE FirstNotOk(_, _)
FirstNotOk(rs, n) ==
  IF n > Len(rs) THEN 0
  ELSE IF rs[n].kind # "ok" THEN n
  ELSE FirstNotOk(rs, n + 1)

\* Mutant: a later occurrence of a column replaces the earlier ones.
PushParam_insert_only(map, k, query_param) ==
  [c \in DOMAIN map \cup {k} |-> IF c = k THEN <<query_param>> ELSE map[c]]

\* HashMap insertion of lines 236-241: push onto the column's list, or insert
\* a list of one.
PushParam(map, k, query_param) ==
  IF k \in DOMAIN map
  THEN [map EXCEPT ![k] = Append(@, query_param)]
  ELSE [c \in DOMAIN map \cup {k} |-> IF c = k THEN <<query_param>> ELSE map[c]]

\* QueryParseResult::default().
DefaultResult ==
  [limit |-> None, cursor |-> None, offset |-> None, count |-> None,
   expand |-> None, order |-> None, params |-> None]

-----------------------------------------------------------------------------
(* Helpers of build_filter_where_clause.                                   *)

\* json_string_to_value: the typed value of a raw string under the column's
\* declared type, or None (its Err).
json_string_to_value(data_type, value) ==
  CASE data_type = "Integer" ->
         IF parse_i64(value) = None THEN None
         ELSE Some([type |-> "Integer", int |-> parse_i64(value)[1], text |-> ""])
    [] data_type = "Text" -> Some([type |-> "Text", int |-> 0, text |-> value])

\* prefix_colon: the placeholder name of a column.
prefix_colon(s) == ":" \o s

\* columns.iter().find(|c| c.name == column_name): the first column of that name.
FindColumn(cols, column_name) ==
  LET hits == {n \in 1..Len(cols) : cols[n].name = column_name}
  IN IF hits = {} THEN None
     ELSE Some(cols[CHOOSE n \in hits : \A m \in hits : n <= m])

\* format!(r#"{table_name}."{column_name}" {op} :{column_name}"#).
Predicate(table, column_name, op) ==
  table \o ".\"" \o column_name \o "\" " \o op \o " :" \o column_name

RECURSIVE FilterColumn_break(_, _, _, _)
\* Mutant: a pair that is dropped ends the column's loop (break for continue).
FilterColumn_break(table, col, query_params, acc) ==
  IF query_params = <<>> THEN acc
  ELSE LET query_param == Head(query_params)
           value == json_string_to_value(col.data_type, query_param.value)
       IN IF query_param.qualifier = None \/ value = None THEN acc
          ELSE FilterColumn_break(table, col, Tail(query_params),
                 [where_clauses |->
                    Append(acc.where_clauses,
                           Predicate(table, col.name, to_sql(query_param.qualifier[1]))),
                  params |->
                    Append(acc.params,
                           [name |-> prefix_colon(col.name), value |-> value[1]])])

RECURSIVE FilterColumn(_, _, _, _)
\* The inner for loop (lines 279-294) over one column's query_params: acc holds
\* where_clauses and params, each pair pushes onto both or onto neither.
FilterColumn(table, col, query_params, acc) ==
  IF query_params = <<>> THEN acc
  ELSE LET query_param == Head(query_params)
           value == json_string_to_value(col.data_type, query_param.value)
           next ==
             IF query_param.qualifier = None THEN acc
             ELSE IF value = None THEN acc
             ELSE [where_clauses |->
                     Append(acc.where_clauses,
                            Predicate(table, col.name, to_sql(query_param.qualifier[1]))),
                   params |->
                     Append(acc.params,
                            [name |-> prefix_colon(col.name), value |-> value[1]])]
       IN FilterColumn(table, col, Tail(query_params), next)

RECURSIVE join(_, _)
\* [String]::join(sep).
join(strs, sep) ==
  IF Len(strs) = 0 THEN ""
  ELSE IF Len(strs) = 1 THEN strs[1]
  ELSE strs[1] \o sep \o join(Tail(strs), sep)

\* Mutant: no literal for the empty list of predicates.
Clause_join_only(wc) == join(wc, " AND ")

\* Lines 298-301.
Clause(wc) == IF Len(wc) = 0 THEN "TRUE" ELSE join(wc, " AND ")

\* Mutant: the reserved-name check of line 265 is missing.
ReservedColumn_never(column_name) == FALSE

\* Line 265: a key that starts with "_" names a reserved column.
ReservedColumn(column_name) == starts_with(column_name, "_")

\* Mutant: the buffer of an earlier call is used again without being cleared.
NewWhereClauses_stale == where_clauses

\* Line 260: the predicates of a call start as a new, empty Vec.
NewWhereClauses == <<>>

\* The Result a call returns: Ok(WhereClause {clause, params}) or
\* Err(WhereClauseError::UnrecognizedParam(msg)).
OkWhereClause(clause, ps) == [kind |-> "Ok", clause |-> clause, params |-> ps, msg |-> ""]
ErrUnrecognizedParam(msg) ==
  [kind |-> "UnrecognizedParam", clause |-> "", params |-> <<>>, msg |-> msg]

-----------------------------------------------------------------------------
(* Inputs.                                                                 *)

\* Most entries of a comma-separated "order" value.
MaxEntries == 2

\* Longest query made of column filters only.
MaxFilters == 2

Pair(k, v) == [key |-> k, value |-> v]

\* The test's cursor, id_to_b64(&[5; 16]) (line 355).
CursorId == "BQUFBQUFBQUFBQUFBQUFBQ=="

ReservedPairs ==
  {Pair("limit", "10"), Pair("limit", "x"),
   Pair("offset", "+5"), Pair("offset", "-5"),
   Pair("cursor", CursorId), Pair("cursor", "-17"), Pair("cursor", "x"),
   Pair("count", "true"), Pair("count", "FALSE"), Pair("count", "yes"),
   Pair("expand", "a,b"), Pair("expand", ""), Pair("expand", "a,b';"),
   Pair("order", "+a,-b,c"), Pair("order", "a,-b';"), Pair("order", Nbsp \o "-a")}

\* Filters the parser accepts.
FilterPairs ==
  {Pair("a", "10"), Pair("a[gte]", "10"), Pair("a[lte]", "100"), Pair("a[foo]", "10"),
   Pair("b[like]", "x"), Pair("_c", "10"), Pair("z[gt]", "10"), Pair(EAcute, "x")}

\* Filters the parser rejects: keys outside the grammar, an unsafe column
\* name, an empty value.
BadFilterPairs ==
  {Pair("a';", "10"), Pair("a'[gte]", "10"), Pair("a[", "10"), Pair("a[$]", "10"),
   Pair("a.b", "10"), Pair("a b", "10"), Pair(Undertie \o "[gte]", "10"),
   Pair("a", ""), Pair("foo,bar", "")}

\* Pairs of every kind, for the queries that mix them.
MixedPairs ==
  {Pair("limit", "10"), Pair("offset", "+5"), Pair("cursor", "-17"), Pair("count", "FALSE"),
   Pair("expand", "a,b"), Pair("expand", "a,b';"),
   Pair("order", "+a,-b,c"), Pair("order", "a,-b';"), Pair("order", Nbsp \o "-a"),
   Pair("a[gte]", "10"), Pair("b[like]", "x"), Pair("_c", "10"),
   Pair("a';", "10"), Pair("a", "")}

OrderEntries ==
  {"a", "-a", "+a", "-b", "--a", "", EAcute, " -a", " a", Nbsp \o "-a", "a'", "-a'"}

SeqsUpTo(S, n) == UNION {[1..m -> S] : m \in 0..n}

\* Queries of up to MaxPairs pairs of every kind, and every single pair.
GeneralQueries ==
  SeqsUpTo(MixedPairs, MaxPairs)
    \cup {<<p>> : p \in ReservedPairs \cup FilterPairs \cup BadFilterPairs}

\* Queries of one "order" pair of up to MaxEntries entries.
OrderQueries ==
  {<<Pair("order", join(es, ","))>> : es \in SeqsUpTo(OrderEntries, MaxEntries) \ {<<>>}}

\* Queries of up to MaxFilters filters.
FilterQueries == SeqsUpTo(FilterPairs, MaxFilters)

\* Values of the cursor, count and expand keys.
FlagPairs ==
  {Pair("cursor", CursorId), Pair("cursor", "-17"), Pair("cursor", "+5"),
   Pair("cursor", "x"), Pair("cursor", "12x"),
   Pair("count", "true"), Pair("count", "TRUE"), Pair("count", "false"),
   Pair("count", "FALSE"), Pair("count", "1"), Pair("count", "0"),
   Pair("count", "True"), Pair("count", "yes"),
   Pair("expand", "a,b"), Pair("expand", ""), Pair("expand", ","), Pair("expand", "a';")}

\* Queries of up to MaxPairs such pairs.
FlagQueries == SeqsUpTo(FlagPairs, MaxPairs)

QueryParam(v, q) == [value |-> v, qualifier |-> q]

\* Lists of QueryParam a caller may attach to a key, the empty list included.
ParamLists ==
  {<<>>,
   <<QueryParam("10", Some("GreaterThanEqual"))>>,
   <<QueryParam("10", Some("GreaterThanEqual")), QueryParam("100", Some("LessThanEqual"))>>,
   <<QueryParam("10", None)>>,
   <<QueryParam("x", Some("Equal"))>>,
   <<QueryParam("x", Some("Like")), QueryParam("7", None), QueryParam("7", Some("Not"))>>}

DirectKeys == {"a", "b", "_c", "z"}

\* The filter mappings handed to build_filter_where_clause directly: unset,
\* empty, or up to MaxKeys keys each with a list.
DirectFilters ==
  {None} \cup
  {Some(m) : m \in UNION {[K -> ParamLists] :
                 K \in {S \in SUBSET DirectKeys : Cardinality(S) <= MaxKeys}}}

Column(n, t) == [name |-> n, data_type |-> t]

\* The relations compiled against: table name and column list.
Relations ==
  {[table_name |-> "t",
    columns |-> <<Column("a", "Integer"), Column("b", "Text"),
                  Column("_c", "Integer"), Column(EAcute, "Text")>>],
   [table_name |-> "main.u",
    columns |-> <<Column("b", "Integer"), Column("a", "Text")>>]}

-----------------------------------------------------------------------------
(* The state machine.                                                      *)

\* The arguments of a run: a relation, and either a query to parse and then
\* compile, or a filter mapping to compile.
MetaVars == <<schema, tables, user_table_name, mst, record_pk_column,
              user_id_columns, json_metadata>>

\* No metadata is being built: a run of the listing functions takes the
\* relation's columns as given.
MetaIdle ==
  /\ schema = None
  /\ tables = <<>>
  /\ user_table_name = ""
  /\ mst = "skip"
  /\ record_pk_column = None
  /\ user_id_columns = <<>>
  /\ json_metadata = None

Init ==
  /\ \/ /\ \E r \in Relations : table_name = r.table_name /\ columns = r.columns
        /\ pairs \in GeneralQueries \cup FilterQueries
        /\ pst = "run"
        /\ filter_params = None
     \/ /\ \E r \in Relations :
             table_name = r.table_name /\ columns = r.columns /\ r.table_name = "t"
        /\ pairs \in OrderQueries \cup FlagQueries
        /\ pst = "run"
        /\ filter_params = None
     \/ /\ \E r \in Relations : table_name = r.table_name /\ columns = r.columns
        /\ pairs = <<>>
        /\ pst = "skip"
        /\ filter_params \in DirectFilters
  /\ i = 1
  /\ perr = ""
  /\ result = DefaultResult
  /\ bst = "idle"
  /\ todo = {}
  /\ where_clauses = <<>>
  /\ params = <<>>
  /\ out = <<>>
  /\ MetaIdle

BuildVars == <<table_name, columns, filter_params, bst, todo, where_clauses, params, out>>
ParseVars == <<pairs, i, pst, perr, result>>

\* The for loop of parse_and_sanitize_query stands at a pair with this key.
AtKey(k) == pst = "run" /\ i <= Len(pairs) /\ pairs[i].key = k

ReservedKeys == {"limit", "cursor", "offset", "count", "expand", "order"}

Continue(r) ==
  /\ result' = r
  /\ i' = i + 1
  /\ UNCHANGED <<pairs, pst, perr>>

ReturnErr(e) ==
  /\ pst' = "err"
  /\ perr' = e
  /\ UNCHANGED <<pairs, i, result>>

Panic ==
  /\ pst' = "panic"
  /\ UNCHANGED <<pairs, i, perr, result>>

ParseLimit ==
  /\ AtKey("limit")
  /\ Continue([result EXCEPT !.limit = parse_usize(pairs[i].value)])
  /\ UNCHANGED BuildVars
  /\ UNCHANGED MetaVars

ParseCursor ==
  /\ AtKey("cursor")
  /\ Continue([result EXCEPT !.cursor = Cursor_parse(pairs[i].value)])
  /\ UNCHANGED BuildVars
  /\ UNCHANGED MetaVars

ParseOffset ==
  /\ AtKey("offset")
  /\ Continue([result EXCEPT !.offset = parse_usize(pairs[i].value)])
  /\ UNCHANGED BuildVars
  /\ UNCHANGED MetaVars

ParseCount ==
  /\ AtKey("count")
  /\ Continue([result EXCEPT !.count = parse_bool(pairs[i].value)])
  /\ UNCHANGED BuildVars
  /\ UNCHANGED MetaVars

ParseExpand ==
  /\ AtKey("expand")
  /\ LET ss == split(pairs[i].value)
         rs == [n \in 1..Len(ss) |-> ExpandEntry(ss[n])]
         bad == FirstNotOk(rs, 1)
         column_names == [n \in 1..Len(ss) |-> rs[n].col]
     IN IF bad # 0 THEN ReturnErr(rs[bad].col)
        ELSE IF column_names # <<>>
        THEN Continue([result EXCEPT !.expand = Some(column_names)])
        ELSE Continue(result)
  /\ UNCHANGED BuildVars
  /\ UNCHANGED MetaVars

ParseOrder ==
  /\ AtKey("order")
  /\ LET vs == split(pairs[i].value)
         bad == FirstNotOk([n \in 1..Len(vs) |-> OrderEntry(vs[n])], 1)
         col_order == [n \in 1..Len(vs) |->
                         <<OrderEntry(vs[n]).col, OrderEntry(vs[n]).ord>>]
     IN IF bad # 0 /\ OrderEntry(vs[bad]).kind = "panic" THEN Panic
        ELSE IF bad # 0 THEN ReturnErr(OrderEntry(vs[bad]).col)
        ELSE IF col_order # <<>>
        THEN Continue([result EXCEPT !.order = Some(col_order)])
        ELSE Continue(result)
  /\ UNCHANGED BuildVars
  /\ UNCHANGED MetaVars

ParseFilter ==
  /\ pst = "run" /\ i <= Len(pairs) /\ pairs[i].key \notin ReservedKeys
  /\ LET key == pairs[i].key
         value == pairs[i].value
         split_key == split_key_into_col_and_op(key)
     IN IF split_key = None THEN ReturnErr(key)
        ELSE IF ~sanitize_column_name(split_key[1].k) THEN ReturnErr(key)
        ELSE IF value = "" THEN ReturnErr(key)
        ELSE LET query_param == QueryParam(value, Qualifier_from(split_key[1].maybe_op))
                 map == IF result.params = None THEN <<>> ELSE result.params[1]
             IN Continue([result EXCEPT
                            !.params = Some(PushParam(map, split_key[1].k, query_param))])
  /\ UNCHANGED BuildVars
  /\ UNCHANGED MetaVars

\* Line 246 (and the early returns of lines 163-169 for no query or an empty one).
ParseReturn ==
  /\ pst = "run" /\ i > Len(pairs)
  /\ pst' = "ok"
  /\ UNCHANGED <<pairs, i, perr, result>>
  /\ UNCHANGED BuildVars
  /\ UNCHANGED MetaVars

\* The calls of build_filter_where_clause a run makes on its arguments.
CallIds == {1, 2}

\* A call of build_filter_where_clause: with the filters of the parsed query,
\* or with the mapping the caller built itself. The same arguments are
\* compiled twice.
BuildCall ==
  /\ bst = "idle" /\ Len(out) + 1 \in CallIds
  /\ \/ /\ pst = "ok"
        /\ filter_params' = result.params
     \/ /\ pst = "skip"
        /\ filter_params' = filter_params
  /\ bst' = "run"
  /\ todo' = IF filter_params' = None THEN {} ELSE DOMAIN filter_params'[1]
  /\ where_clauses' = NewWhereClauses
  /\ params' = <<>>
  /\ UNCHANGED <<table_name, columns, out>>
  /\ UNCHANGED ParseVars
  /\ UNCHANGED MetaVars

\* One iteration of the outer for loop (lines 264-295). The HashMap yields its
\* keys in an order the program does not fix: any key not yet visited is next.
BuildColumn ==
  /\ bst = "run"
  /\ \E column_name \in todo :
       LET col == FindColumn(columns, column_name)
           acc == FilterColumn(table_name, col[1], filter_params[1][column_name],
                               [where_clauses |-> where_clauses, params |-> params])
       IN IF ReservedColumn(column_name)
          THEN /\ bst' = "idle"
               /\ out' = Append(out, ErrUnrecognizedParam("Invalid parameter: " \o column_name))
               /\ UNCHANGED <<todo, where_clauses, params>>
          ELSE IF col = None
          THEN /\ bst' = "idle"
               /\ out' = Append(out, ErrUnrecognizedParam("Unrecognized parameter: " \o column_name))
               /\ UNCHANGED <<todo, where_clauses, params>>
          ELSE /\ todo' = todo \ {column_name}
               /\ where_clauses' = acc.where_clauses
               /\ params' = acc.params
               /\ UNCHANGED <<bst, out>>
  /\ UNCHANGED <<table_name, columns, filter_params>>
  /\ UNCHANGED ParseVars
  /\ UNCHANGED MetaVars

\* Lines 298-303.
BuildReturn ==
  /\ bst = "run" /\ todo = {}
  /\ bst' = "idle"
  /\ out' = Append(out, OkWhereClause(Clause(where_clauses), params))
  /\ UNCHANGED <<table_name, columns, filter_params, todo, where_clauses, params>>
  /\ UNCHANGED ParseVars
  /\ UNCHANGED MetaVars

Next ==
  \/ ParseLimit
  \/ ParseCursor
  \/ ParseOffset
  \/ ParseCount
  \/ ParseExpand
  \/ ParseOrder
  \/ ParseFilter
  \/ ParseReturn
  \/ BuildCall
  \/ BuildColumn
  \/ BuildReturn

Spec == Init /\ [][Next]_vars

-----------------------------------------------------------------------------
(* What the claims speak of.                                               *)

\* The key has the shape of a name followed by one bracketed suffix.
HasSuffix(key) ==
  /\ Len(key) >= 1 /\ Char(key, Len(key)) = "]"
  /\ \E n \in 1..Len(key) : Char(key, n) = "["

LastOpen(key) ==
  CHOOSE n \in 1..Len(key) :
    Char(key, n) = "[" /\ \A m \in 1..Len(key) : Char(key, m) = "[" => m <= n

\* The column-name part of a filter key: the key without one optional
\* trailing [op] suffix.
ColumnNamePart(key) == IF HasSuffix(key) THEN SubSeq(key, 1, LastOpen(key) - 1) ELSE key

\* The operator token of a filter key, if it carries a suffix.
OpPart(key) ==
  IF HasSuffix(key) THEN Some(SubSeq(key, LastOpen(key) + 1, Len(key) - 1)) ELSE None

\* [A-Za-z0-9._-]
AsciiSafeChar(c) == c \in AsciiLower \cup AsciiUpper \cup AsciiDigit \cup {".", "_", "-"}

\* Alphanumeric in the Unicode sense, or one of . _ -
SafeChar(c) == AsciiSafeChar(c) \/ c = EAcute

OnlyChars(s, Ok(_)) == \A n \in 1..Len(s) : Ok(Char(s, n))

IsFilterKey(key) == key \notin ReservedKeys

\* The keys of the parsed filter mapping so far.
ParsedKeys == IF result.params = None THEN {} ELSE DOMAIN result.params[1]

\* The keys of the mapping being compiled.
FilterKeys == IF filter_params = None THEN {} ELSE DOMAIN filter_params[1]

IsColumn(k) == \E n \in 1..Len(columns) : columns[n].name = k

ColumnOf(k) == columns[CHOOSE n \in 1..Len(columns) :
                         columns[n].name = k /\ \A m \in 1..(n - 1) : columns[m].name # k]

\* A key build_filter_where_clause must reject.
RejectedKey(k) == starts_with(k, "_") \/ ~IsColumn(k)

SqlOps == {">=", ">", "<=", "<", "<>", "LIKE", "REGEXP", "="}

\* The calls that have returned.
Returned == 1..Len(out)

-----------------------------------------------------------------------------
(* C1 - injection resistance.                                              *)

\* C1 as stated: a parse never succeeds on, and the parsed filter mapping never
\* holds, a column name with a character outside [A-Za-z0-9._-].
C1_AsciiNamesOnly ==
  /\ pst = "ok" =>
       \A n \in 1..Len(pairs) :
         IsFilterKey(pairs[n].key) => OnlyChars(ColumnNamePart(pairs[n].key), AsciiSafeChar)
  /\ \A k \in ParsedKeys : OnlyChars(k, AsciiSafeChar)

\* C1, amended: when the column-name part of a non-reserved key contains a
\* character that is neither alphanumeric (in the Unicode sense of
\* char::is_alphanumeric) nor one of . _ -, the parse does not return Ok; no
\* such name is ever a key of the parsed filter mapping, and every predicate
\* compiled from a parsed query interpolates only such a safe key.
C1_InjectionResistance ==
  /\ pst = "ok" =>
       \A n \in 1..Len(pairs) :
         IsFilterKey(pairs[n].key) => OnlyChars(ColumnNamePart(pairs[n].key), SafeChar)
  /\ \A k \in ParsedKeys : OnlyChars(k, SafeChar)
  /\ pst = "ok" =>
       \A n \in 1..Len(where_clauses) :
         \E k \in FilterKeys, op \in SqlOps :
           /\ OnlyChars(k, SafeChar)
           /\ k \in ParsedKeys
           /\ where_clauses[n] = table_name \o ".\"" \o k \o "\" " \o op \o " :" \o k

\* A parse has failed at a filter key whose column name passes the key grammar
\* and carries an unsafe character.
C1_Witness ==
  /\ pst = "err"
  /\ pairs[i].key = Undertie \o "[gte]"
  /\ perr = pairs[i].key
  /\ ~OnlyChars(ColumnNamePart(pairs[i].key), SafeChar)

-----------------------------------------------------------------------------
(* C2 - reserved and unknown columns are rejected.                         *)

\* C2: when the mapping compiled holds a key that starts with "_" or names no
\* column, every call returns the UnrecognizedParam error naming such a key
\* (never a WhereClause), whatever list the key carries.
C2_RejectsReservedAndUnknown ==
  \A n \in Returned :
    (\E k \in FilterKeys : RejectedKey(k)) =>
      /\ out[n].kind = "UnrecognizedParam"
      /\ \E k \in FilterKeys :
           /\ RejectedKey(k)
           /\ out[n].msg = IF starts_with(k, "_") THEN "Invalid parameter: " \o k
                           ELSE "Unrecognized parameter: " \o k

\* A reserved key that is also a column, carrying an empty list, was rejected.
C2_Witness ==
  /\ Len(out) >= 1
  /\ out[1] = ErrUnrecognizedParam("Invalid parameter: _c")
  /\ IsColumn("_c")
  /\ filter_params[1]["_c"] = <<>>

-----------------------------------------------------------------------------
(* C3 - the empty filter compiles to TRUE.                                 *)

\* The pair contributes no predicate: no qualifier, or a value that does not
\* coerce to the column's type.
Dropped(k, query_param) ==
  \/ query_param.qualifier = None
  \/ json_string_to_value(ColumnOf(k).data_type, query_param.value) = None

AllDropped ==
  \A k \in FilterKeys :
    /\ ~RejectedKey(k)
    /\ \A n \in 1..Len(filter_params[1][k]) : Dropped(k, filter_params[1][k][n])

\* C3: with the mapping unset, empty, or holding only valid columns whose pairs
\* are all dropped, every call returns Ok with the clause "TRUE" and no binding.
C3_EmptyFilterTautology ==
  \A n \in Returned :
    AllDropped => out[n] = [kind |-> "Ok", clause |-> "TRUE", params |-> <<>>, msg |-> ""]

\* A mapping with a key whose pairs were all dropped has compiled to TRUE.
C3_Witness ==
  /\ Len(out) >= 1
  /\ out[1].kind = "Ok" /\ out[1].clause = "TRUE" /\ out[1].params = <<>>
  /\ \E k \in FilterKeys : Len(filter_params[1][k]) >= 1

-----------------------------------------------------------------------------
(* C4 - range accumulation.                                                *)

\* The operator tokens of the filter grammar and the comparison of each.
OperatorTokens ==
  [gte |-> "GreaterThanEqual", gt |-> "GreaterThan", lte |-> "LessThanEqual",
   lt |-> "LessThan", not |-> "Not", ne |-> "NotEqual", like |-> "Like", re |-> "Regexp"]

TokenQualifier(op) ==
  IF op = None THEN Some("Equal")
  ELSE IF op[1] \in DOMAIN OperatorTokens THEN Some(OperatorTokens[op[1]])
  ELSE None

RECURSIVE Occurrences(_, _)
\* The filter occurrences of column k among the first n pairs of the query, in
\* arrival order, each with its own qualifier and value.
Occurrences(k, n) ==
  IF n = 0 THEN <<>>
  ELSE IF IsFilterKey(pairs[n].key) /\ ColumnNamePart(pairs[n].key) = k
  THEN Append(Occurrences(k, n - 1),
              [value |-> pairs[n].value, qualifier |-> TokenQualifier(OpPart(pairs[n].key))])
  ELSE Occurrences(k, n - 1)

FilteredColumns(n) ==
  {ColumnNamePart(pairs[m].key) : m \in {j \in 1..n : IsFilterKey(pairs[j].key)}}

RECURSIVE SplitOn(_, _)
\* The pieces of s between the occurrences of sep.
SplitOn(s, sep) ==
  LET at == {n \in 1..(Len(s) - Len(sep) + 1) : SubSeq(s, n, n + Len(sep) - 1) = sep}
      first == CHOOSE n \in at : \A m \in at : n <= m
  IN IF at = {} THEN <<s>>
     ELSE <<SubSeq(s, 1, first - 1)>> \o SplitOn(SubSeq(s, first + Len(sep), Len(s)), sep)

\* The AND-ed predicates of a clause.
Conjuncts(clause) == IF clause = "TRUE" THEN <<>> ELSE SplitOn(clause, " AND ")

IsPredicateOn(c, k) ==
  \E op \in SqlOps : c = table_name \o ".\"" \o k \o "\" " \o op \o " :" \o k

PredicateOp(c, k) ==
  CHOOSE op \in SqlOps : c = table_name \o ".\"" \o k \o "\" " \o op \o " :" \o k

\* The predicates of the clause on column k, and the bindings of its placeholder.
PredicatesOn(w, k) == SelectSeq(Conjuncts(w.clause), LAMBDA c : IsPredicateOn(c, k))
BindingsOf(w, k) == SelectSeq(w.params, LAMBDA b : b.name = ":" \o k)

\* Every pair of the mapping compiles: a valid column, a qualifier, a value of
\* the column's type.
AllCompile ==
  \A k \in FilterKeys :
    /\ ~RejectedKey(k)
    /\ \A n \in 1..Len(filter_params[1][k]) : ~Dropped(k, filter_params[1][k][n])

NumPairs == Cardinality({n \in 1..Len(pairs) : IsFilterKey(pairs[n].key)})

\* C4: while and after a parse, the filter mapping holds under each column
\* name exactly that column's occurrences so far, in arrival order, each with
\* its qualifier and value; compiling the mapping of a parsed query against
\* columns its pairs match yields one AND-ed predicate and one binding per
\* occurrence, each column's in arrival order, each binding carrying the
\* occurrence's value.
C4_RangeAccumulation ==
  /\ pst \in {"run", "ok"} =>
       /\ ParsedKeys = FilteredColumns(i - 1)
       /\ \A k \in ParsedKeys : result.params[1][k] = Occurrences(k, i - 1)
  /\ pst = "ok" /\ AllCompile =>
       \A n \in Returned :
         /\ out[n].kind = "Ok"
         /\ Len(Conjuncts(out[n].clause)) = NumPairs
         /\ Len(out[n].params) = NumPairs
         /\ \A k \in FilterKeys :
              LET occ == Occurrences(k, Len(pairs))
                  preds == PredicatesOn(out[n], k)
                  binds == BindingsOf(out[n], k)
              IN /\ Len(preds) = Len(occ) /\ Len(binds) = Len(occ)
                 /\ \A m \in 1..Len(occ) :
                      /\ PredicateOp(preds[m], k) = to_sql(occ[m].qualifier[1])
                      /\ Some(binds[m].value) =
                           json_string_to_value(ColumnOf(k).data_type, occ[m].value)

\* a[gte]=10&a[lte]=100 was parsed and compiled against the integer column a.
C4_Witness ==
  /\ pst = "ok"
  /\ result.params = Some([k \in {"a"} |->
         <<[value |-> "10", qualifier |-> Some("GreaterThanEqual")],
           [value |-> "100", qualifier |-> Some("LessThanEqual")]>>])
  /\ Len(out) >= 1
  /\ out[1].clause = "t.\"a\" >= :a AND t.\"a\" <= :a"
  /\ Len(out[1].params) = 2
  /\ out[1].params[1].value.int = 10 /\ out[1].params[2].value.int = 100

-----------------------------------------------------------------------------
(* C5 - one bound value per placeholder name.                              *)

\* C5: in every WhereClause returned, the placeholder names of the binding
\* list are pairwise distinct, and each placeholder of the clause text is
\* bound exactly once.
C5_DistinctPlaceholders ==
  \A n \in Returned :
    out[n].kind = "Ok" =>
      /\ \A a, b \in 1..Len(out[n].params) :
           a # b => out[n].params[a].name # out[n].params[b].name
      /\ \A k \in FilterKeys :
           PredicatesOn(out[n], k) # <<>> => Len(BindingsOf(out[n], k)) = 1

-----------------------------------------------------------------------------
(* C6 - two compilations of the same arguments.                            *)

\* C6 as stated: any two calls on the same arguments return identical results.
C6_ByteIdentical == \A m, n \in Returned : out[m] = out[n]

\* The columns that contribute a predicate to a returned clause.
Contributing(w) == {k \in FilterKeys : PredicatesOn(w, k) # <<>>}

\* C6, amended: two calls on the same arguments both return Ok or both return
\* Err. Two Ok results hold the same predicates and the same bindings, each
\* column's in the same order, and are identical when at most one column
\* contributes predicates; with two or more such columns the order of the
\* columns' groups, and so the clause text and the order of the binding list,
\* may differ. Two Err results each name a rejected key, the same one when the
\* mapping holds only one.
C6_SameUpToColumnOrder ==
  \A m, n \in Returned :
    /\ out[m].kind = out[n].kind
    /\ out[m].kind = "Ok" =>
         /\ Len(Conjuncts(out[m].clause)) = Len(Conjuncts(out[n].clause))
         /\ Len(out[m].params) = Len(out[n].params)
         /\ \A k \in FilterKeys :
              /\ PredicatesOn(out[m], k) = PredicatesOn(out[n], k)
              /\ BindingsOf(out[m], k) = BindingsOf(out[n], k)
         /\ Cardinality(Contributing(out[m])) <= 1 => out[m] = out[n]
    /\ out[m].kind # "Ok" /\ Cardinality({k \in FilterKeys : RejectedKey(k)}) = 1 =>
         out[m] = out[n]

\* Two calls on one mapping with two contributing columns have returned
\* clauses that differ in the order of the columns.
C6_Witness ==
  /\ Len(out) = 2
  /\ out[1].kind = "Ok" /\ out[2].kind = "Ok"
  /\ Cardinality(Contributing(out[1])) = 2
  /\ out[1].clause # out[2].clause

-----------------------------------------------------------------------------
(* C7 - ordering round trip.                                               *)

\* An entry of the "order" value without its optional "+" or "-" prefix.
StripPrefix(e) ==
  IF starts_with(e, "+") \/ starts_with(e, "-") THEN SubSeq(e, 2, Len(e)) ELSE e

\* The direction an entry asks for.
Direction(e) == IF starts_with(e, "-") THEN "Descending" ELSE "Ascending"

\* Every entry of the value is a valid column name, optionally prefixed.
ValidOrderValue(value) ==
  \A n \in 1..Len(SplitOn(value, ",")) :
    OnlyChars(StripPrefix(SplitOn(value, ",")[n]), SafeChar)

\* The "order" pairs the loop has gone through.
OrdersDone == {n \in 1..(i - 1) : pairs[n].key = "order"}

LastOrderDone == CHOOSE n \in OrdersDone : \A m \in OrdersDone : m <= n

\* C7: an "order" value whose entries are valid column names, each optionally
\* prefixed by "+" or "-", never fails the parse, and yields one (column,
\* direction) pair per entry, in order: the column is the entry without its
\* prefix, "-" is descending, "+" or no prefix ascending.
C7_OrderingRoundTrip ==
  /\ pst \in {"err", "panic"} /\ pairs[i].key = "order" => ~ValidOrderValue(pairs[i].value)
  /\ pst \in {"run", "ok"} /\ OrdersDone # {} /\ ValidOrderValue(pairs[LastOrderDone].value) =>
       LET es == SplitOn(pairs[LastOrderDone].value, ",")
       IN result.order = Some([n \in 1..Len(es) |-> <<StripPrefix(es[n]), Direction(es[n])>>])

\* order=+a,-b,c was parsed.
C7_Witness ==
  /\ pst = "ok"
  /\ pairs = <<[key |-> "order", value |-> "+a,-b,c"]>>
  /\ result.order = Some(<<<<"a", "Ascending">>, <<"b", "Descending">>, <<"c", "Ascending">>>>)

-----------------------------------------------------------------------------
(* C8 - lenient drop.                                                      *)

\* The pairs of column k that have a qualifier and a value of the column's type.
KeptPairs(k) == SelectSeq(filter_params[1][k], LAMBDA q : ~Dropped(k, q))

\* C8: when every key of the mapping is a non-reserved existing column, every
\* call returns Ok, with exactly one predicate and one binding for each pair
\* that has a recognised qualifier and a coercible value, each column's in the
\* order of its list; the other pairs contribute nothing and change nothing.
C8_LenientDrop ==
  \A n \in Returned :
    (\A k \in FilterKeys : ~RejectedKey(k)) =>
      /\ out[n].kind = "Ok"
      /\ \A m \in 1..Len(Conjuncts(out[n].clause)) :
           \E k \in FilterKeys : IsPredicateOn(Conjuncts(out[n].clause)[m], k)
      /\ \A m \in 1..Len(out[n].params) :
           \E k \in FilterKeys : out[n].params[m].name = ":" \o k
      /\ Len(Conjuncts(out[n].clause)) = Len(out[n].params)
      /\ \A k \in FilterKeys :
           LET kept == KeptPairs(k)
               preds == PredicatesOn(out[n], k)
               binds == BindingsOf(out[n], k)
           IN /\ Len(preds) = Len(kept) /\ Len(binds) = Len(kept)
              /\ \A m \in 1..Len(kept) :
                   /\ PredicateOp(preds[m], k) = to_sql(kept[m].qualifier[1])
                   /\ Some(binds[m].value) =
                        json_string_to_value(ColumnOf(k).data_type, kept[m].value)

\* A column whose list holds a pair without qualifier, a pair whose value does
\* not coerce and a good pair has compiled to the good pair's predicate alone,
\* beside another column's predicate.
C8_Witness ==
  /\ Len(out) >= 1 /\ out[1].kind = "Ok"
  /\ table_name = "t"
  /\ "a" \in FilterKeys /\ "b" \in FilterKeys
  /\ Len(filter_params[1]["a"]) = 3
  /\ PredicatesOn(out[1], "a") = <<"t.\"a\" <> :a">>
  /\ PredicatesOn(out[1], "b") # <<>>

-----------------------------------------------------------------------------
(* C9 - malformed query syntax aborts the parse.                           *)

\* The key follows the grammar word or word[word].
GrammarOk(key) ==
  \/ AllWord(key)
  \/ /\ HasSuffix(key)
     /\ AllWord(ColumnNamePart(key))
     /\ OpPart(key)[1] # "" /\ AllWord(OpPart(key)[1])

\* The entries of an "order" or "expand" value that are not safe names.
UnsafeEntries(p) ==
  LET es == SplitOn(p.value, ",")
  IN {n \in 1..Len(es) :
        IF p.key = "order" THEN ~OnlyChars(StripPrefix(trim(es[n])), SafeChar)
        ELSE ~OnlyChars(es[n], SafeChar)}

Malformed(p) ==
  IF p.key \in {"order", "expand"} THEN UnsafeEntries(p) # {}
  ELSE /\ IsFilterKey(p.key)
       /\ \/ ~GrammarOk(p.key)
          \/ ~OnlyChars(ColumnNamePart(p.key), SafeChar)
          \/ p.value = ""

\* The raw token the error is to carry: the whole key of a filter, the first
\* offending entry of an order or expand value.
OffendingToken(p) ==
  IF p.key \in {"order", "expand"}
  THEN SplitOn(p.value, ",")[CHOOSE n \in UnsafeEntries(p) : \A m \in UnsafeEntries(p) : n <= m]
  ELSE p.key

MalformedPairs == {n \in 1..Len(pairs) : Malformed(pairs[n])}

\* C9: a parse of a query with a malformed pair ends by returning Err with the
\* raw token of the first malformed pair, and nothing else.
C9_ErrCarriesRawToken ==
  pst \in {"ok", "err", "panic"} /\ MalformedPairs # {} =>
    /\ pst = "err"
    /\ perr = OffendingToken(pairs[CHOOSE n \in MalformedPairs : \A m \in MalformedPairs : n <= m])

-----------------------------------------------------------------------------
(* C10 - errors are return values.                                         *)

\* C10: parse_and_sanitize_query ends by returning Ok or Err, never by a panic.
C10_NeverPanics == pst # "panic"

-----------------------------------------------------------------------------
(* Schema metadata (trailbase-schema/src/metadata.rs).                     *)

\* Most constraint options of a column besides its primary-key option.
MaxOptions == 2

\* Most columns of a relation.
MaxColumns == 2

\* A ColumnOption. Every variant is a record of the same fields; a variant
\* leaves the fields it does not have at their defaults.
Unique(is_primary) ==
  [kind |-> "Unique", is_primary |-> is_primary,
   foreign_table |-> "", referred_columns |-> <<>>, expr |-> ""]
ForeignKey(foreign_table, referred_columns) ==
  [kind |-> "ForeignKey", is_primary |-> FALSE,
   foreign_table |-> foreign_table, referred_columns |-> referred_columns, expr |-> ""]
Check(expr) ==
  [kind |-> "Check", is_primary |-> FALSE,
   foreign_table |-> "", referred_columns |-> <<>>, expr |-> expr]
NotNull ==
  [kind |-> "NotNull", is_primary |-> FALSE,
   foreign_table |-> "", referred_columns |-> <<>>, expr |-> ""]

SchemaColumn(name, data_type, options) ==
  [name |-> name, data_type |-> data_type, options |-> options]

Table(name, cols) == [name |-> name, columns |-> cols]

\* A View: its columns are known or not (Option<Vec<Column>>).
View(name, maybe_cols) == [name |-> name, columns |-> maybe_cols]

\* The literal occurs in s at position p.
LitAt(s, p, lit) ==
  p >= 1 /\ p + Len(lit) - 1 <= Len(s) /\ SubSeq(s, p, p + Len(lit) - 1) = lit

Least(S) == CHOOSE n \in S : \A m \in S : n <= m

\* \s*: the position after the white space that starts at p.
SkipSpace(s, p) ==
  IF p > Len(s) THEN p
  ELSE Least({q \in p..(Len(s) + 1) : q > Len(s) \/ ~is_whitespace(Char(s, q))})

\* UUID_V7_RE.is_match(expr), for ^is_uuid_v7\s*\(
UUID_V7_RE(expr) ==
  /\ LitAt(expr, 1, "is_uuid_v7")
  /\ LitAt(expr, SkipSpace(expr, Len("is_uuid_v7") + 1), "(")

\* The closure of find_pk_column_index: the is_primary of the column's first
\* Unique option.
IsPkColumn(col) ==
  LET us == {n \in 1..Len(col.options) : col.options[n].kind = "Unique"}
  IN us # {} /\ col.options[Least(us)].is_primary

\* Indexes are those of the code: the first column has index 0.
find_pk_column_index(cols) ==
  LET hits == {n \in 1..Len(cols) : IsPkColumn(cols[n])}
  IN IF hits = {} THEN None ELSE Some(Least(hits) - 1)

\* tables.iter().find(|t| t.name == *foreign_table)
FindTable(ts, name) ==
  LET hits == {n \in 1..Len(ts) : ts[n].name = name}
  IN IF hits = {} THEN None ELSE Some(ts[Least(hits)])

\* The loop over the referred column's options (lines 402-417).
ReferredQualifies(col) ==
  \/ \E n \in 1..Len(col.options) :
       col.options[n].kind = "Check" /\ UUID_V7_RE(col.options[n].expr)
  \/ /\ \E n \in 1..Len(col.options) :
          col.options[n].kind = "Unique" /\ col.options[n].is_primary
     /\ col.data_type = "Integer"

RECURSIVE ScanPkOptions(_, _, _, _)
\* The loop over the primary-key column's options (lines 375-428), from option n.
ScanPkOptions(index, options, n, ts) ==
  IF n > Len(options) THEN None
  ELSE LET opts == options[n]
           referred_table == FindTable(ts, opts.foreign_table)
           col == FindColumn(referred_table[1].columns, opts.referred_columns[1])
       IN IF opts.kind = "ForeignKey"
          THEN IF referred_table = None
               THEN ScanPkOptions(index, options, n + 1, ts)
               ELSE IF Len(opts.referred_columns) # 1 THEN None
               ELSE IF col = None THEN None
               ELSE IF ReferredQualifies(col[1]) THEN Some(index)
               ELSE None
          ELSE IF opts.kind = "Check" /\ UUID_V7_RE(opts.expr) THEN Some(index)
          ELSE ScanPkOptions(index, options, n + 1, ts)

find_record_pk_column_index(cols, ts) ==
  LET index == find_pk_column_index(cols)
      column == cols[index[1] + 1]
  IN IF index = None THEN None
     ELSE IF column.data_type = "Integer" THEN index
     ELSE ScanPkOptions(index[1], column.options, 1, ts)

RECURSIVE UserIdOptions(_, _, _, _)
\* The inner loop of find_user_id_foreign_key_columns over one column's options.
UserIdOptions(index, options, user_table, indexes) ==
  IF options = <<>> THEN indexes
  ELSE LET opt == Head(options)
           hit == /\ opt.kind = "ForeignKey"
                  /\ opt.foreign_table = user_table
                  /\ Len(opt.referred_columns) = 1
                  /\ opt.referred_columns[1] = "id"
       IN UserIdOptions(index, Tail(options), user_table,
                        IF hit THEN Append(indexes, index) ELSE indexes)

RECURSIVE UserIdColumns(_, _, _, _)
UserIdColumns(cols, n, user_table, indexes) ==
  IF n > Len(cols) THEN indexes
  ELSE UserIdColumns(cols, n + 1, user_table,
                     UserIdOptions(n - 1, cols[n].options, user_table, indexes))

find_user_id_foreign_key_columns(cols, user_table) ==
  UserIdColumns(cols, 1, user_table, <<>>)

\* Greatest element of a set of positions.
Greatest(S) == CHOOSE n \in S : \A m \in S : m <= n

\* crate::registry::get_schema(name): the names the registry knows.
RegisteredSchemas == {"std.FileUpload", "std.FileUploads", "app.Doc"}
get_schema(name) == IF name \in RegisteredSchemas THEN Some(name) ELSE None

\* Some ")" stands at position from or later.
CloseParenFrom(s, from) == \E d \in from..Len(s) : Char(s, d) = ")"

\* SCHEMA_RE matched from position p: the positions b of the character that
\* closes the name, for
\*   jsonschema\s*\(\s*[\['"](?<name>.*)[\]'"]\s*,.+?\)
\* The name runs from NameStart to b - 1.
SchemaNameStart(s, p) ==
  SkipSpace(s, SkipSpace(s, p + Len("jsonschema")) + 1) + 1
SchemaNameEnds(s, p) ==
  LET q == SkipSpace(s, p + Len("jsonschema"))
      r == SkipSpace(s, q + 1)
  IN IF LitAt(s, p, "jsonschema") /\ LitAt(s, q, "(")
        /\ r <= Len(s) /\ Char(s, r) \in {"[", "'", "\""}
     THEN {b \in (r + 1)..Len(s) :
             /\ Char(s, b) \in {"]", "'", "\""}
             /\ LitAt(s, SkipSpace(s, b + 1), ",")
             /\ CloseParenFrom(s, SkipSpace(s, b + 1) + 2)}
     ELSE {}

\* SCHEMA_RE.captures(check): the name of the leftmost match, its greedy .*
\* taking the longest name.
SCHEMA_RE(check) ==
  LET starts == {p \in 1..Len(check) : SchemaNameEnds(check, p) # {}}
      p == Least(starts)
  IN IF starts = {} THEN None
     ELSE Some(SubSeq(check, SchemaNameStart(check, p),
                      Greatest(SchemaNameEnds(check, p)) - 1))

\* MATCHES_RE matched from position p with the pattern opening at a: the
\* positions e of the brace that closes the pattern, for
\*   jsonschema_matches\s*\(.+?(?<pattern>\{.*\}).+?\)
PatternEnds(s, a) ==
  {e \in (a + 1)..Len(s) : Char(s, e) = "}" /\ CloseParenFrom(s, e + 2)}
PatternStarts(s, p) ==
  LET q == SkipSpace(s, p + Len("jsonschema_matches"))
  IN IF LitAt(s, p, "jsonschema_matches") /\ LitAt(s, q, "(")
     THEN {a \in (q + 2)..Len(s) : Char(s, a) = "{" /\ PatternEnds(s, a) # {}}
     ELSE {}

\* MATCHES_RE.captures(check): the pattern of the leftmost match, its lazy .+?
\* stopping at the first brace that can open a match and its greedy .* running
\* to the last brace that can close one.
MATCHES_RE(check) ==
  LET starts == {p \in 1..Len(check) : PatternStarts(check, p) # {}}
      a == Least(PatternStarts(check, Least(starts)))
  IN IF starts = {} THEN None
     ELSE Some(SubSeq(check, a, Greatest(PatternEnds(check, a))))

\* serde_json::from_str::<Value>. The positions below are those just after
\* the piece parsed, 0 when the text is not JSON there.
JsonSkip(s, p) ==
  IF p > Len(s) THEN p
  ELSE Least({q \in p..(Len(s) + 1) : q > Len(s) \/ Char(s, q) # " "})

\* The position after the digits that start at p.
DigitsEnd(s, p) ==
  IF p > Len(s) THEN p
  ELSE Least({q \in p..(Len(s) + 1) : q > Len(s) \/ Char(s, q) \notin AsciiDigit})

JsonNumberEnd(s, p) ==
  LET a == IF LitAt(s, p, "-") THEN p + 1 ELSE p
      b == IF LitAt(s, a, "0") THEN a + 1 ELSE DigitsEnd(s, a)
      c == IF LitAt(s, b, ".")
           THEN (IF DigitsEnd(s, b + 1) > b + 1 THEN DigitsEnd(s, b + 1) ELSE 0)
           ELSE b
      x == IF c # 0 /\ (LitAt(s, c, "e") \/ LitAt(s, c, "E"))
           THEN (IF LitAt(s, c + 1, "+") \/ LitAt(s, c + 1, "-") THEN c + 2 ELSE c + 1)
           ELSE 0
  IN IF b = a THEN 0
     ELSE IF x = 0 THEN c
     ELSE IF DigitsEnd(s, x) > x THEN DigitsEnd(s, x) ELSE 0

RECURSIVE JsonStringEnd(_, _)
\* p is the position after the opening quote.
JsonStringEnd(s, p) ==
  IF p > Len(s) THEN 0
  ELSE IF Char(s, p) = "\"" THEN p + 1
  ELSE IF Char(s, p) = "\\"
  THEN (IF p + 1 <= Len(s) /\ Char(s, p + 1) \in {"\"", "\\", "/", "b", "f", "n", "r", "t"}
        THEN JsonStringEnd(s, p + 2) ELSE 0)
  ELSE JsonStringEnd(s, p + 1)

RECURSIVE JsonScan(_, _, _, _)
\* The parser's walk over the document from position p. "stack" holds the
\* brackets that are open, innermost last; "mode" is what is expected next:
\* "value", "key" (a member's key), or "after" (a value has just ended).
\* TRUE when the text is one JSON value and nothing else.
JsonScan(s, p, stack, mode) ==
  LET a == JsonSkip(s, p)
      c == Char(s, a)
      top == Char(stack, Len(stack))
      pop == SubSeq(stack, 1, Len(stack) - 1)
      string_end == JsonStringEnd(s, a + 1)
      number_end == JsonNumberEnd(s, a)
      b == JsonSkip(s, a + 1)
  IN IF a > Len(s) THEN mode = "after" /\ stack = ""
     ELSE IF mode = "value"
     THEN (IF c = "{"
           THEN (IF LitAt(s, b, "}") THEN JsonScan(s, b + 1, stack, "after")
                 ELSE JsonScan(s, b, stack \o "{", "key"))
           ELSE IF c = "["
           THEN (IF LitAt(s, b, "]") THEN JsonScan(s, b + 1, stack, "after")
                 ELSE JsonScan(s, b, stack \o "[", "value"))
           ELSE IF c = "\""
           THEN string_end # 0 /\ JsonScan(s, string_end, stack, "after")
           ELSE IF LitAt(s, a, "true") \/ LitAt(s, a, "null")
           THEN JsonScan(s, a + 4, stack, "after")
           ELSE IF LitAt(s, a, "false") THEN JsonScan(s, a + 5, stack, "after")
           ELSE number_end # 0 /\ JsonScan(s, number_end, stack, "after"))
     ELSE IF mode = "key"
     THEN /\ c = "\"" /\ string_end # 0
          /\ LitAt(s, JsonSkip(s, string_end), ":")
          /\ JsonScan(s, JsonSkip(s, string_end) + 1, stack, "value")
     ELSE IF stack = "" THEN FALSE
     ELSE IF c = "," THEN JsonScan(s, a + 1, stack, IF top = "{" THEN "key" ELSE "value")
     ELSE IF (c = "}" /\ top = "{") \/ (c = "]" /\ top = "[")
     THEN JsonScan(s, a + 1, pop, "after")
     ELSE FALSE

RECURSIVE JsonCompact(_, _, _)
\* The value parsed, written without the white space between its tokens.
JsonCompact(s, p, in_string) ==
  IF p > Len(s) THEN ""
  ELSE LET c == Char(s, p)
       IN IF in_string /\ c = "\\" THEN SubSeq(s, p, p + 1) \o JsonCompact(s, p + 2, TRUE)
          ELSE IF c = "\"" THEN c \o JsonCompact(s, p + 1, ~in_string)
          ELSE IF c = " " /\ ~in_string THEN JsonCompact(s, p + 1, FALSE)
          ELSE c \o JsonCompact(s, p + 1, in_string)

\* Some(value), or None for a parse error.
json_from_str(s) ==
  IF JsonScan(s, 1, "", "value") THEN Some(JsonCompact(s, 1, FALSE)) ELSE None

SchemaName(name) == [variant |-> "SchemaName", value |-> name]
Pattern(value) == [variant |-> "Pattern", value |-> value]

\* Result<Option<JsonColumnMetadata>, JsonSchemaError>
OkMeta(maybe) == [kind |-> "Ok", maybe |-> maybe]
ErrMeta(error) == [kind |-> error, maybe |-> None]

\* Lines 299-304, with the document's parse at hand.
PatternMeta(value) ==
  IF value = None THEN ErrMeta("JsonSerialization") ELSE OkMeta(Some(Pattern(value[1])))

\* Lines 284-306, with the captures of the two expressions at hand.
CapturedMeta(name, pattern) ==
  IF name # None
  THEN (IF get_schema(name[1]) = None THEN ErrMeta("NotFound")
        ELSE OkMeta(Some(SchemaName(name[1]))))
  ELSE IF pattern # None THEN PatternMeta(json_from_str(pattern[1]))
  ELSE OkMeta(None)

extract_json_metadata(opt) ==
  IF opt.kind # "Check" THEN OkMeta(None)
  ELSE CapturedMeta(SCHEMA_RE(opt.expr), MATCHES_RE(opt.expr))

\* What extract_json_metadata returns for each option of the column.
Extracted(col) == [n \in 1..Len(col.options) |-> extract_json_metadata(col.options[n])]

\* Mutant: an option that yields an error ends the loop without a descriptor.
FirstDescriptor_stop_at_error(got) ==
  LET hits == {n \in 1..Len(got) : got[n].kind # "Ok" \/ got[n].maybe # None}
  IN IF hits = {} THEN None ELSE got[Least(hits)].maybe
\* The loop of build_json_metadata: the descriptor of the first option that
\* yields one; an option that yields an error is logged and passed over.
FirstDescriptor(got) ==
  LET hits == {n \in 1..Len(got) : got[n].kind = "Ok" /\ got[n].maybe # None}
  IN IF hits = {} THEN None ELSE got[Least(hits)].maybe

build_json_metadata(col) == FirstDescriptor(Extracted(col))

\* A descriptor that names one of the file-upload schemas.
IsFileColumn(column) ==
  /\ column # None
  /\ column[1].variant = "SchemaName"
  /\ column[1].value \in {"std.FileUpload", "std.FileUploads"}

\* The indexes pushed by the loop of find_file_column_indexes, in column
\* order. Indexes are those of the code: the first column has index 0.
find_file_column_indexes(json_column_metadata) ==
  SelectSeq([n \in 1..Len(json_column_metadata) |-> n - 1],
            LAMBDA index : IsFileColumn(json_column_metadata[index + 1]))

\* JsonMetadata::from_columns, lines 84-89, with the mapped columns at hand.
JsonMetadata(mapped) ==
  [columns |-> mapped, file_column_indexes |-> find_file_column_indexes(mapped)]

\* JsonMetadata::from_columns
from_columns(cols) ==
  JsonMetadata([n \in 1..Len(cols) |-> build_json_metadata(cols[n])])

-----------------------------------------------------------------------------
(* Schemas the metadata is built from.                                     *)

UuidCheck == Check("is_uuid_v7(id)")

\* The tables known to the schema loader. _user is the identity table.
KnownTables ==
  <<Table("_user", <<SchemaColumn("id", "Blob", <<Unique(TRUE), UuidCheck, NotNull>>),
                     SchemaColumn("email", "Text", <<Unique(FALSE)>>)>>),
    Table("acct", <<SchemaColumn("id", "Integer", <<Unique(TRUE)>>),
                    SchemaColumn("code", "Text", <<Unique(FALSE)>>),
                    SchemaColumn("tag", "Blob", <<Check("is_uuid_v7 (tag)")>>)>>)>>

\* The table lists handed to the constructors: every table, or _user alone.
TableLists == {KnownTables, <<KnownTables[1]>>}

\* Options a primary-key column carries besides its primary-key option.
TailOptions ==
  {UuidCheck, Check("length(id) = 16"), NotNull, Unique(FALSE),
   ForeignKey("acct", <<"id">>), ForeignKey("acct", <<"code">>),
   ForeignKey("acct", <<"tag">>), ForeignKey("acct", <<"nope">>),
   ForeignKey("acct", <<"id", "code">>), ForeignKey("_user", <<"id">>)}

\* Primary-key columns: the primary-key option first or last.
PkColumns ==
  {SchemaColumn("id", t, <<Unique(TRUE)>> \o tail) :
     t \in {"Integer", "Blob"}, tail \in SeqsUpTo(TailOptions, MaxOptions)}
  \cup {SchemaColumn("id", t, tail \o <<Unique(TRUE)>>) :
     t \in {"Integer", "Blob"}, tail \in SeqsUpTo(TailOptions, MaxOptions)}

NoteColumn == SchemaColumn("note", "Text", <<NotNull, Unique(FALSE)>>)

\* Column lists with a primary-key column, and one without.
PkColumnLists ==
  {<<c>> : c \in PkColumns} \cup {<<NoteColumn, c>> : c \in PkColumns} \cup {<<NoteColumn>>}

ColumnNames == <<"c0", "c1", "c2", "c3">>

\* The columns named by their place, so that names are unique in a relation.
Named(cols) == [n \in DOMAIN cols |-> [cols[n] EXCEPT !.name = ColumnNames[n]]]

\* Columns with and without a foreign key to the identity table's id.
OwnerColumns ==
  {SchemaColumn("c", "Blob", opts) :
     opts \in {<<ForeignKey("_user", <<"id">>)>>,
               <<NotNull, ForeignKey("_user", <<"id">>)>>,
               <<ForeignKey("_user", <<"id">>), ForeignKey("_user", <<"id">>)>>,
               <<ForeignKey("_user", <<"email">>)>>,
               <<ForeignKey("_user", <<"id", "email">>)>>,
               <<ForeignKey("acct", <<"id">>)>>,
               <<Unique(TRUE), UuidCheck>>,
               <<>>}}

OwnerColumnLists == {Named(cols) : cols \in SeqsUpTo(OwnerColumns, MaxColumns)}

\* Columns with and without a JSON check.
JsonColumns ==
  {SchemaColumn("c", "Text", opts) :
     opts \in {<<Check("jsonschema('std.FileUpload', c)")>>,
               <<NotNull, Check("jsonschema ( \"app.Doc\" , c)")>>,
               <<Check("jsonschema('app.Gone', c)")>>,
               <<Check("jsonschema('app.Gone', c)"), Check("jsonschema('std.FileUploads', c)")>>,
               <<Check("jsonschema_matches('{\"type\": \"object\"}', c)")>>,
               <<Check("jsonschema_matches('{type: object}', c)")>>,
               <<Check("jsonschema_matches('{\"a\":1,}', c)"), Check("jsonschema_matches('{}', c)")>>,
               <<Check("length(c) < 10")>>,
               <<>>}}

JsonColumnLists == {Named(cols) : cols \in SeqsUpTo(JsonColumns, MaxColumns)}

TableSchema(cols) == [kind |-> "table", name |-> "t", columns |-> Some(cols)]
ViewSchema(maybe_cols) == [kind |-> "view", name |-> "v", columns |-> maybe_cols]

\* A table of the columns, a view that selects them, or a view whose columns
\* are not known.
SchemasOf(lists) ==
  {TableSchema(cols) : cols \in lists} \cup {ViewSchema(Some(cols)) : cols \in lists}
    \cup {ViewSchema(None)}

-----------------------------------------------------------------------------
(* TableMetadata::new and ViewMetadata::new.                               *)

\* The listing functions are not running.
ListingIdle ==
  /\ pairs = <<>>
  /\ i = 1
  /\ pst = "skip"
  /\ perr = ""
  /\ result = DefaultResult
  /\ table_name = ""
  /\ columns = <<>>
  /\ filter_params = None
  /\ bst = "idle"
  /\ todo = {}
  /\ where_clauses = <<>>
  /\ params = <<>>
  /\ out = <<>>

MetaInit ==
  /\ \/ /\ schema \in SchemasOf(PkColumnLists)
        /\ tables \in TableLists
        /\ user_table_name = "_user"
     \/ /\ schema \in SchemasOf(OwnerColumnLists)
        /\ tables = KnownTables
        /\ user_table_name \in {"_user", "acct"}
     \/ /\ schema \in SchemasOf(JsonColumnLists)
        /\ tables = KnownTables
        /\ user_table_name = "_user"
  /\ mst = "new"
  /\ record_pk_column = None
  /\ user_id_columns = <<>>
  /\ json_metadata = None
  /\ ListingIdle

ListingVars == <<pairs, i, pst, perr, result, table_name, columns, filter_params,
                 bst, todo, where_clauses, params, out>>

\* TableMetadata::new, line 125.
TableFindRecordPk ==
  /\ mst = "new" /\ schema.kind = "table"
  /\ record_pk_column' = find_record_pk_column_index(schema.columns[1], tables)
  /\ mst' = "pk"
  /\ UNCHANGED <<schema, tables, user_table_name, user_id_columns, json_metadata>>
  /\ UNCHANGED ListingVars

\* ViewMetadata::new, lines 182-185.
ViewFindRecordPk ==
  /\ mst = "new" /\ schema.kind = "view"
  /\ record_pk_column' = IF schema.columns = None THEN None
                         ELSE find_record_pk_column_index(schema.columns[1], tables)
  /\ mst' = "pk"
  /\ UNCHANGED <<schema, tables, user_table_name, user_id_columns, json_metadata>>
  /\ UNCHANGED ListingVars

\* TableMetadata::new, line 126.
FindUserIdColumns ==
  /\ mst = "pk" /\ schema.kind = "table"
  /\ user_id_columns' = find_user_id_foreign_key_columns(schema.columns[1], user_table_name)
  /\ mst' = "user"
  /\ UNCHANGED <<schema, tables, user_table_name, record_pk_column, json_metadata>>
  /\ UNCHANGED ListingVars

\* TableMetadata::new, line 127 (JsonMetadata::from_table). The variable holds
\* what TableOrViewMetadata::json_metadata returns.
TableJsonMetadata ==
  /\ mst = "user" /\ schema.kind = "table"
  /\ json_metadata' = Some(from_columns(schema.columns[1]))
  /\ mst' = "done"
  /\ UNCHANGED <<schema, tables, user_table_name, record_pk_column, user_id_columns>>
  /\ UNCHANGED ListingVars

\* ViewMetadata::new, line 186 (JsonMetadata::from_view).
ViewJsonMetadata ==
  /\ mst = "pk" /\ schema.kind = "view"
  /\ json_metadata' = IF schema.columns = None THEN None
                      ELSE Some(from_columns(schema.columns[1]))
  /\ mst' = "done"
  /\ UNCHANGED <<schema, tables, user_table_name, record_pk_column, user_id_columns>>
  /\ UNCHANGED ListingVars

MetaNext ==
  \/ TableFindRecordPk
  \/ ViewFindRecordPk
  \/ FindUserIdColumns
  \/ TableJsonMetadata
  \/ ViewJsonMetadata

MetaSpec == MetaInit /\ [][MetaNext]_vars

-----------------------------------------------------------------------------
(* What the metadata claims speak of.                                      *)

\* The relation's columns; a view whose columns are not known has none.
RelationColumns == IF schema.columns = None THEN <<>> ELSE schema.columns[1]

\* The column is declared the primary key.
HasPrimaryOption(c) ==
  \E n \in 1..Len(c.options) : c.options[n].kind = "Unique" /\ c.options[n].is_primary

\* The places of the relation's primary-key columns.
PrimaryKeys == {n \in 1..Len(RelationColumns) : HasPrimaryOption(RelationColumns[n])}

\* The column carries a check of the form is_uuid_v7(...).
HasUuidCheck(c) ==
  \E n \in 1..Len(c.options) : c.options[n].kind = "Check" /\ UUID_V7_RE(c.options[n].expr)

\* The columns a single-column foreign key resolves to in the table list.
ReferencedColumns(opt) ==
  {c \in UNION {{t.columns[n] : n \in 1..Len(t.columns)} :
                  t \in {tables[m] : m \in 1..Len(tables)} \cap
                        {u \in {tables[m] : m \in 1..Len(tables)} : u.name = opt.foreign_table}} :
     c.name = opt.referred_columns[1]}

\* The option is a single-column foreign key to a column fit to be a key.
ReferencesKey(opt) ==
  /\ opt.kind = "ForeignKey"
  /\ Len(opt.referred_columns) = 1
  /\ \E c \in ReferencedColumns(opt) :
       HasUuidCheck(c) \/ (HasPrimaryOption(c) /\ c.data_type = "Integer")

\* The option is a foreign key that does not resolve: it is multi-column, or
\* its table or its column is not in the table list.
Unresolvable(opt) ==
  /\ opt.kind = "ForeignKey"
  /\ \/ Len(opt.referred_columns) # 1
     \/ ReferencedColumns(opt) = {}

\* record_pk_column has been computed.
PkDone == mst \in {"pk", "user", "done"}

-----------------------------------------------------------------------------
(* C11 - pagination-key detection.                                         *)

\* C11: record_pk_column is the index of the primary-key column when that
\* column is integer-typed, or carries its own is_uuid_v7 check, or carries a
\* single-column foreign key whose referenced column carries such a check or
\* is an integer primary key; a relation without a primary-key column has no
\* pagination key.
C11_PaginationKey ==
  PkDone =>
    IF PrimaryKeys = {} THEN record_pk_column = None
    ELSE LET n == Least(PrimaryKeys)
             c == RelationColumns[n]
         IN \/ c.data_type = "Integer"
            \/ HasUuidCheck(c)
            \/ \E m \in 1..Len(c.options) : ReferencesKey(c.options[m])
            => record_pk_column = Some(n - 1)

-----------------------------------------------------------------------------
(* C12 - ownership columns.                                                *)

\* The option is a foreign key to exactly the column id of the identity table.
ReferencesUserId(opt) ==
  /\ opt.kind = "ForeignKey"
  /\ opt.foreign_table = user_table_name
  /\ opt.referred_columns = <<"id">>

\* The places of the columns that carry such an option.
OwnedColumns ==
  {n \in 1..Len(RelationColumns) :
     \E m \in 1..Len(RelationColumns[n].options) :
       ReferencesUserId(RelationColumns[n].options[m])}

\* user_id_columns has been computed.
UserDone == mst \in {"user", "done"} /\ schema.kind = "table"

\* C12: user_id_columns lists exactly the indexes of the columns with a
\* foreign key to the single column id of the identity table, in strictly
\* increasing order, each index once.
C12_OwnershipColumns ==
  UserDone =>
    /\ {user_id_columns[k] : k \in 1..Len(user_id_columns)} = {n - 1 : n \in OwnedColumns}
    /\ \A j, k \in 1..Len(user_id_columns) :
         j < k => user_id_columns[j] < user_id_columns[k]

-----------------------------------------------------------------------------
(* C14 - foreign keys that do not resolve.                                 *)

\* C14: when the primary-key column is not integer-typed and carries a
\* foreign key that is multi-column, or whose table is not in the table list,
\* or whose column is not in that table, record_pk_column is absent, whatever
\* other options the column carries and in whatever order.
C14_UnresolvedDisqualifies ==
  PkDone /\ PrimaryKeys # {} =>
    LET c == RelationColumns[Least(PrimaryKeys)]
    IN /\ c.data_type # "Integer"
       /\ \E m \in 1..Len(c.options) : Unresolvable(c.options[m])
       => record_pk_column = None

-----------------------------------------------------------------------------
(* C15 - lenient per-column JSON metadata.                                 *)

\* The check names a schema the registry does not know, or embeds a document
\* that is not JSON.
FailingCheck(opt) ==
  /\ opt.kind = "Check"
  /\ \/ SCHEMA_RE(opt.expr) # None /\ SCHEMA_RE(opt.expr)[1] \notin RegisteredSchemas
     \/ /\ SCHEMA_RE(opt.expr) = None /\ MATCHES_RE(opt.expr) # None
        /\ json_from_str(MATCHES_RE(opt.expr)[1]) = None

\* The check names a schema of the registry, or embeds a JSON document.
YieldingCheck(opt) ==
  /\ opt.kind = "Check"
  /\ \/ SCHEMA_RE(opt.expr) # None /\ SCHEMA_RE(opt.expr)[1] \in RegisteredSchemas
     \/ /\ SCHEMA_RE(opt.expr) = None /\ MATCHES_RE(opt.expr) # None
        /\ json_from_str(MATCHES_RE(opt.expr)[1]) # None

\* The descriptor such a check stands for.
DescriptorOf(opt) ==
  IF SCHEMA_RE(opt.expr) # None THEN SchemaName(SCHEMA_RE(opt.expr)[1])
  ELSE Pattern(json_from_str(MATCHES_RE(opt.expr)[1])[1])

Failing(c) == {m \in 1..Len(c.options) : FailingCheck(c.options[m])}
Yielding(c) == {m \in 1..Len(c.options) : YieldingCheck(c.options[m])}

\* The JSON metadata of a relation with known columns has been built.
JsonDone == mst = "done" /\ schema.columns # None

\* C15 as stated: the metadata has one entry per column, in column order, and
\* a column with a check that names an unknown schema or embeds a malformed
\* document has no metadata.
C15_NoMetadataOnFailure ==
  JsonDone =>
    /\ json_metadata # None
    /\ Len(json_metadata[1].columns) = Len(RelationColumns)
    /\ \A n \in 1..Len(RelationColumns) :
         Failing(RelationColumns[n]) # {} => json_metadata[1].columns[n] = None

\* C15, amended: the metadata has one entry per column, in column order; a
\* check that names an unknown schema or embeds a malformed document yields
\* no descriptor; a column's entry is the descriptor of the first of its own
\* checks that yields one, and no metadata when none of them does, whatever
\* the other columns carry.
C15_LenientPerColumn ==
  JsonDone =>
    /\ json_metadata # None
    /\ Len(json_metadata[1].columns) = Len(RelationColumns)
    /\ \A n \in 1..Len(RelationColumns) :
         LET c == RelationColumns[n]
         IN IF Yielding(c) = {} THEN json_metadata[1].columns[n] = None
            ELSE json_metadata[1].columns[n] = Some(DescriptorOf(c.options[Least(Yielding(c))]))

\* Metadata was built for two columns that both carry a failing check: the
\* first has a later check that yields a descriptor, the second has none.
C15_Witness ==
  /\ JsonDone /\ Len(RelationColumns) = 2
  /\ Failing(RelationColumns[1]) # {} /\ Yielding(RelationColumns[1]) # {}
  /\ Failing(RelationColumns[2]) # {} /\ Yielding(RelationColumns[2]) = {}
  /\ json_metadata[1].columns[1] # None
  /\ json_metadata[1].columns[2] = None

-----------------------------------------------------------------------------
(* C13 - cursor variant dispatch.                                          *)

\* The pairs the loop of parse_and_sanitize_query has been through.
Processed == 1..(i - 1)

\* The last pair with this key that the loop has been through, if any.
LastOf(key) ==
  LET ns == {n \in Processed : pairs[n].key = key}
  IN IF ns = {} THEN None ELSE Some(pairs[Greatest(ns)].value)

\* A base-10 integer: digits after an optional sign.
IsIntegerString(v) ==
  /\ Len(v) >= 1
  /\ \/ \A n \in 1..Len(v) : Char(v, n) \in AsciiDigit
     \/ /\ Len(v) >= 2 /\ Char(v, 1) \in {"+", "-"}
        /\ \A n \in 2..Len(v) : Char(v, n) \in AsciiDigit

\* The number the string denotes.
IntegerDenoted(v) ==
  IF Char(v, 1) = "-" THEN 0 - DecimalValue(SubSeq(v, 2, Len(v)))
  ELSE IF Char(v, 1) = "+" THEN DecimalValue(SubSeq(v, 2, Len(v)))
  ELSE DecimalValue(v)

\* The parse has not gone past the pair at which it stopped.
Stopped == pst \in {"err", "panic"}

\* C13: a cursor value that decodes as a 16-byte identifier yields the Blob
\* variant holding those bytes, otherwise a base-10 integer string yields the
\* Integer variant, and any other string yields no cursor; the parse never
\* stops at a cursor pair.
C13_CursorDispatch ==
  /\ pst # "skip" /\ LastOf("cursor") # None =>
       LET v == LastOf("cursor")[1]
       IN IF b64_to_id(v) # None
          THEN /\ result.cursor # None
               /\ result.cursor[1].variant = "Blob"
               /\ result.cursor[1].blob = b64_to_id(v)[1]
          ELSE IF IsIntegerString(v)
          THEN /\ result.cursor # None
               /\ result.cursor[1].variant = "Integer"
               /\ result.cursor[1].num = IntegerDenoted(v)
          ELSE result.cursor = None
  /\ Stopped => pairs[i].key # "cursor"

\* A parse has returned Ok with a Blob cursor that replaced an Integer one.
C13_Witness ==
  /\ pst = "ok" /\ Len(pairs) = 2
  /\ pairs[1] = Pair("cursor", "-17") /\ pairs[2] = Pair("cursor", CursorId)
  /\ result.cursor # None /\ result.cursor[1].variant = "Blob"

-----------------------------------------------------------------------------
(* C16 - the count flag.                                                   *)

UpperLetters == "ABCDEFGHIJKLMNOPQRSTUVWXYZ"
LowerLetters == "abcdefghijklmnopqrstuvwxyz"

\* The string with its ASCII capitals made small.
ToLower(s) ==
  [n \in 1..Len(s) |->
     IF \E m \in 1..Len(UpperLetters) : Char(UpperLetters, m) = Char(s, n)
     THEN Char(LowerLetters, CHOOSE m \in 1..Len(UpperLetters) : Char(UpperLetters, m) = Char(s, n))
     ELSE Char(s, n)]

\* true or false in any letter case, or 1 or 0.
IsBoolTokenAnyCase(v) ==
  \/ v \in {"1", "0"}
  \/ ToLower(v) \in {<<"t", "r", "u", "e">>, <<"f", "a", "l", "s", "e">>}

\* C16 as stated: a count value that is true or false in any letter case, or 1
\* or 0, sets the count flag, to true; every other value leaves it unset; the
\* parse never stops at a count pair.
C16_AnyLetterCase ==
  /\ pst # "skip" /\ LastOf("count") # None =>
       IF IsBoolTokenAnyCase(LastOf("count")[1]) THEN result.count = Some(TRUE)
       ELSE result.count = None
  /\ Stopped => pairs[i].key # "count"

\* C16, amended: the count values true, TRUE, false, FALSE, 1 and 0 set the
\* count flag, to true; every other value, true or false in mixed case
\* included, leaves it unset; the parse never stops at a count pair.
C16_CountTokens ==
  /\ pst # "skip" /\ LastOf("count") # None =>
       IF LastOf("count")[1] \in {"true", "TRUE", "false", "FALSE", "1", "0"}
       THEN result.count = Some(TRUE)
       ELSE result.count = None
  /\ Stopped => pairs[i].key # "count"

\* A parse has returned Ok after a false-like count value set the flag and
\* a mixed-case one cleared it again.
C16_Witness ==
  /\ pst = "ok" /\ Len(pairs) = 2
  /\ pairs[1] = Pair("count", "FALSE") /\ pairs[2] = Pair("count", "True")
  /\ result.count = None

-----------------------------------------------------------------------------
(* C17 - the expansion list.                                               *)

\* C17: after a successful parse the expansion list is unset, or a list of
\* one or more column names none of which is empty.
C17_ExpandUnsetOrNames ==
  pst = "ok" =>
    \/ result.expand = None
    \/ /\ Len(result.expand[1]) >= 1
       /\ \A n \in 1..Len(result.expand[1]) : result.expand[1][n] # ""

====
